---- MODULE Spec2Model ----
(***************************************************************************)
(* State-machine model of the staking-pool owner contract                  *)
(* (src/contract/src/lib.rs): the ledger of struct Contract, the promises  *)
(* (cross-contract calls and their callbacks) the contract has issued and  *)
(* that are still in flight, and the staking pool the harvest flow talks   *)
(* to.                                                                     *)
(*                                                                         *)
(* Platform semantics used throughout: a method call that panics           *)
(* (assert!, require!, expect, unwrap, arithmetic trap) persists no state  *)
(* change and schedules no promise; a #[private] method runs only as the   *)
(* callback of a promise the contract itself created.                      *)
(*                                                                         *)
(* Units: timestamps and durations are counted in units of 10^9            *)
(* nanoseconds, so that the 15_000_000_000 ns staleness ceiling is 15 and  *)
(* set_full_rewards_duration(sec) stores sec.  Balances are u128 in the    *)
(* source; U128_MAX is the scaled stand-in for 2^128 - 1.                  *)
(***************************************************************************)
EXTENDS Integers, Sequences, FiniteSets, Bags, TLC

VARIABLES
    rewards_received,          \* Contract.rewards_received
    available_rewards,         \* Contract.available_rewards
    last_reward_distribution,  \* Contract.last_reward_distribution
    farm_duration,             \* Contract.farm_duration
    full_rewards_duration,     \* Contract.full_rewards_duration
    usn_distributed,           \* Contract.usn_distributed
    swap_path,                 \* Contract.swap_path
    wrapped_amount,            \* Contract.wrapped_amount
    now,                       \* env::block_timestamp()
    promises,                  \* bag of promises in flight (calls and callbacks)
    pool_staked,               \* staking pool: this contract's staked balance
    pool_unstaked,             \* staking pool: this contract's unstaked balance
    pool_can_withdraw,         \* staking pool: unstaked balance is withdrawable
    pool_paid,                 \* history: total paid out by successful withdraw calls
    credited,                  \* history: total added to rewards_received by on_withdraw
    swapped,                   \* history: total reward whose on_swap took the success path
    wnear_balance,             \* wrapped-native token: this contract's balance
    usn_balance,               \* reward token: this contract's balance
    usn_received,              \* history: total reward tokens paid out by the swap venue
    last                       \* history: the last operation executed, with its inputs

ledger == <<rewards_received, available_rewards, last_reward_distribution,
            farm_duration, full_rewards_duration, usn_distributed, swap_path,
            wrapped_amount>>
pool == <<pool_staked, pool_unstaked, pool_can_withdraw, pool_paid>>
tokens == <<wnear_balance, usn_balance, usn_received>>
history == <<credited, swapped>>
vars == <<rewards_received, available_rewards, last_reward_distribution,
          farm_duration, full_rewards_duration, usn_distributed, swap_path,
          wrapped_amount, now, promises, pool_staked, pool_unstaked,
          pool_can_withdraw, pool_paid, credited, swapped, last, tokens>>

(***************************************************************************)
(* Bounds of the model.                                                    *)
(***************************************************************************)
TimeStep == 16       \* how far one block advances the clock
MaxTime == 32        \* Spec: cap on block_timestamp
MaxInFlight == 1     \* Spec: cap on the promises in flight at once
MaxBalance == 2      \* Spec: cap on the native currency that enters the system
MaxUsn == 3          \* cap on usn_distributed when draining a reported balance
MaxSwaps == 2        \* SpecDistribution: cap on the distributions in flight
MaxFunds == 3        \* SpecDistribution: cap on the native currency that enters
LongTime == 32       \* SpecDistribution: cap on block_timestamp
ShortStep == 8       \* SpecDistribution: how far one block advances the clock
MaxCycles == 1       \* SpecLedger: cap on the harvest cycles in flight
LedgerTime == 24     \* SpecLedger: cap on block_timestamp
MaxWrapped == 2      \* SpecScenario: no new distribution once a wrapped amount exceeds it
MaxHarvests == 2     \* SpecHarvest: cap on the harvest cycles in flight
MaxYield == 2        \* SpecHarvest: cap on the native currency that enters
MaxDonated == 4      \* SpecTokens: cap on the native currency that enters
MaxWnear == 5        \* SpecTokens: no new distribution once the wrapped balance exceeds it
MaxChains == 2       \* SpecTokens: cap on the call chains in flight

(***************************************************************************)
(* Program constants.                                                      *)
(***************************************************************************)
U128_MAX == 16777215
DEFAULT_FARM_DURATION == 604800
FULL_REWARDS_DURATION == 259200
MAX_RECENCY_DURATION_SEC == 90
MAX_STALENESS == 15
SLIPPAGE_NUM == 99
SLIPPAGE_DENOM == 100

\* Account identifiers the contract is constructed with, and strangers.
owner_id == "owner"
oracle_contract_id == "oracle"
usn_contract_id == "usn"
wrap_near_contract_id == "wnear"
ref_finance_contract_id == "ref"
staking_pool_account_id == "pool"
current_account_id == "self"
Stranger == "alice"
OtherToken == "dai"

(***************************************************************************)
(* Arithmetic.                                                             *)
(***************************************************************************)
\* The value standing for a trap (panic) of an arithmetic helper.
Trap == 0 - 1

Min(a, b) == IF a <= b THEN a ELSE b
Max(a, b) == IF a >= b THEN a ELSE b

\* u128::saturating_sub
saturating_sub(a, b) == IF a >= b THEN a - b ELSE 0

\* 10u128.pow(n), unbounded; its overflow is judged where it is used.
RECURSIVE pow10(_)
pow10(n) == IF n = 0 THEN 1 ELSE 10 * pow10(n - 1)

\* A ratio whose product is taken in u128 and wraps around.
u128_ratio_narrow(a, num, denom) ==
    IF denom = 0 THEN Trap
    ELSE ((a * num) % (U128_MAX + 1)) \div denom

\* u128_ratio: the product and the quotient are taken in U256, where the
\* product of two u128 cannot overflow; the division traps on denom = 0 and
\* as_u128 traps when the quotient does not fit u128.
u128_ratio(a, num, denom) ==
    IF denom = 0 THEN Trap
    ELSE IF (a * num) \div denom > U128_MAX THEN Trap
    ELSE (a * num) \div denom

\* A release without the linear ramp: everything available at any time.
near_reward_no_ramp(available, time_diff, duration) == available

\* The body of get_near_reward_for_distribution on explicit arguments.
near_reward(available, time_diff, duration) ==
    IF time_diff >= duration THEN available
    ELSE u128_ratio(available, time_diff, duration)

\* Contract::get_near_reward_for_distribution (a view of the current state).
get_near_reward_for_distribution ==
    near_reward(available_rewards, now - last_reward_distribution,
                full_rewards_duration)

(***************************************************************************)
(* Swap path.                                                              *)
(***************************************************************************)
Action(pool_id, token_in, token_out, min_amount_out) ==
    [pool_id |-> pool_id, token_in |-> token_in, token_out |-> token_out,
     min_amount_out |-> min_amount_out]

\* Contract::assert_valid_swap_path as a predicate: TRUE iff no assertion
\* (and no unwrap of first()/last() on an empty path) panics.
assert_valid_swap_path(path) ==
    /\ Len(path) > 0
    /\ path[1].token_in = wrap_near_contract_id
    /\ path[Len(path)].token_out = usn_contract_id
    /\ \A i \in 1..Len(path) : path[i].min_amount_out = 0

\* actions = self.swap_path.clone(); actions.last_mut().unwrap().min_amount_out = m
swap_actions(path, m) ==
    [i \in 1..Len(path) |->
        IF i = Len(path) THEN [path[i] EXCEPT !.min_amount_out = m] ELSE path[i]]

(***************************************************************************)
(* Price data (the oracle's bundle).                                       *)
(***************************************************************************)
Price(multiplier, decimals) == [multiplier |-> multiplier, decimals |-> decimals]

\* AssetOptionalPrice: price is an Option, modelled as a set of at most one Price.
AssetOptionalPrice(asset_id, price) == [asset_id |-> asset_id, price |-> price]

PriceData(recency_duration_sec, timestamp, prices) ==
    [recency_duration_sec |-> recency_duration_sec, timestamp |-> timestamp,
     prices |-> prices]

\* prices.get(id) on the HashMap collected from data.prices: entries without a
\* price are filtered out and a later entry for the same asset replaces an
\* earlier one.  The result is an Option (a set of at most one Price).
prices_get(prices, id) ==
    LET hits == {i \in 1..Len(prices) :
                    prices[i].asset_id = id /\ prices[i].price # {}}
    IN IF hits = {} THEN {}
       ELSE prices[CHOOSE i \in hits : \A j \in hits : j <= i].price

the(option) == CHOOSE x \in option : TRUE

\* wnear_extra and usn_extra of oracle_on_call.
wnear_extra(wnear_price, usn_price) ==
    IF wnear_price.decimals < usn_price.decimals
    THEN pow10(usn_price.decimals - wnear_price.decimals) ELSE 1

\* A conversion that does not scale the reward token's side.
usn_extra_unscaled(wnear_price, usn_price) == 1

usn_extra(wnear_price, usn_price) ==
    IF usn_price.decimals < wnear_price.decimals
    THEN pow10(wnear_price.decimals - usn_price.decimals) ELSE 1

\* A u128 product or power of oracle_on_call leaves the u128 range.
price_overflows(wnear_price, usn_price) ==
    \/ wnear_extra(wnear_price, usn_price) > U128_MAX
    \/ usn_extra(wnear_price, usn_price) > U128_MAX
    \/ wnear_price.multiplier * wnear_extra(wnear_price, usn_price) > U128_MAX
    \/ usn_price.multiplier * usn_extra(wnear_price, usn_price) > U128_MAX

wrapping(x) == x % (U128_MAX + 1)

\* oracle_amount_out of oracle_on_call (u128 products taken with wrap-around,
\* which is the identity when price_overflows is FALSE).
oracle_amount_out(reward, wnear_price, usn_price) ==
    u128_ratio(
        reward,
        wrapping(wnear_price.multiplier
                    * wrapping(wnear_extra(wnear_price, usn_price))),
        wrapping(usn_price.multiplier
                    * wrapping(usn_extra(wnear_price, usn_price))))

\* A floor without the slippage allowance.
slippage_floor_none(amount_out) == amount_out

\* min_amount_out of oracle_on_call: slippage 1%.
slippage_floor(amount_out) ==
    IF amount_out = Trap THEN Trap
    ELSE u128_ratio(amount_out, SLIPPAGE_NUM, SLIPPAGE_DENOM)

\* A commit that takes nothing out of available_rewards.
oracle_committed_nothing(reward) == 0

\* What oracle_on_call takes out of available_rewards when it commits reward.
oracle_committed(reward) == reward

\* A wrap amount without the extra unit.
wrap_amount_exact(reward, wrapped) == saturating_sub(reward, wrapped)

\* A commit that leaves the time of the last distribution as it was.
distribution_time_kept == last_reward_distribution

\* What oracle_on_call writes into last_reward_distribution when it commits.
distribution_time == now

\* wrap_amount of oracle_on_call.
wrap_amount_for(reward, wrapped) == saturating_sub(reward, wrapped) + 1

(***************************************************************************)
(* Promises in flight.  A promise is a record whose method names the call  *)
(* that will run next on its chain; the fields are the arguments the       *)
(* contract bound when it created the chain.                               *)
(***************************************************************************)
Issue(p) == promises (+) SetToBag({p})
Settle(p) == promises (-) SetToBag({p})
Pending(method) == {p \in BagToSet(promises) : p.method = method}
InFlight == BagCardinality(promises)
\* The promises in flight whose method is one of the given ones.
InFlightOf(methods) ==
    BagCardinality([p \in {q \in BagToSet(promises) : q.method \in methods} |->
                        CopiesIn(p, promises)])
HarvestMethods == {"get_account", "on_get_account", "withdraw", "on_withdraw",
                   "unstake_all"}
SwapMethods == {"on_swap", "ft_transfer_call"}
AllMethods == HarvestMethods \cup SwapMethods \cup {"ft_balance_of", "on_usn_balance"}

\* near_deposit(wrap_amount) + ft_transfer_call(reward, actions) on the
\* wrapper, then on_swap(min_amount_out, reward).
SwapPromise(wrap_amount, actions, min_amount_out, reward) ==
    [method |-> "on_swap", wrap_amount |-> wrap_amount, actions |-> actions,
     min_amount_out |-> min_amount_out, reward |-> reward]

\* ft_transfer_call on the reward token towards the staking pool (the farm).
ForwardPromise(amount, end_date) ==
    [method |-> "ft_transfer_call", receiver_id |-> staking_pool_account_id,
     amount |-> amount, end_date |-> end_date]

(***************************************************************************)
(* Distribution: oracle_on_call, on_swap, internal_distribute_usn.         *)
(***************************************************************************)
\* A staleness check that lets every past timestamp through.
never_stale(timestamp) == FALSE

\* The staleness assertion of oracle_on_call fails.
too_stale(timestamp) == now - timestamp > MAX_STALENESS

\* The panic oracle_on_call ends with, in the order the code reaches them;
\* "" when the call runs to its end.  prices_valid says whether every asset
\* id parses and every price passes Price::assert_valid (code outside this
\* file); overflow_checks says whether the build traps on u128 overflow.
oracle_on_call_panic(predecessor, data, prices_valid, overflow_checks) ==
    LET reward == get_near_reward_for_distribution
        usn == prices_get(data.prices, usn_contract_id)
        wnear == prices_get(data.prices, wrap_near_contract_id)
    IN CASE predecessor # oracle_contract_id -> "assertion failed: predecessor"
         [] data.recency_duration_sec > MAX_RECENCY_DURATION_SEC ->
                "Recency duration in the oracle call is larger than allowed maximum"
         [] data.timestamp > now -> "Price data timestamp is in the future"
         [] too_stale(data.timestamp) -> "Price data timestamp is too stale"
         [] reward = Trap -> "ratio trap"
         [] reward = 0 -> "Nothing to distribute"
         [] ~prices_valid -> "invalid price"
         [] usn = {} -> "Missing USN price"
         [] wnear = {} -> "Missing wNEAR price"
         [] price_overflows(the(wnear), the(usn)) /\ overflow_checks -> "overflow"
         [] slippage_floor(oracle_amount_out(reward, the(wnear), the(usn))) = Trap ->
                "ratio trap"
         [] swap_path = <<>> -> "unwrap on None"
         [] wrap_amount_for(reward, wrapped_amount) > U128_MAX /\ overflow_checks ->
                "overflow"
         [] OTHER -> ""

\* OraclePriceReceiver::oracle_on_call
oracle_on_call(predecessor, data, prices_valid, overflow_checks) ==
    LET panic == oracle_on_call_panic(predecessor, data, prices_valid, overflow_checks)
        reward == get_near_reward_for_distribution
    IN IF panic # ""
       THEN UNCHANGED <<ledger, now, promises, pool, history, tokens>>
       ELSE LET usn_price == the(prices_get(data.prices, usn_contract_id))
                wnear_price == the(prices_get(data.prices, wrap_near_contract_id))
                amount_out == oracle_amount_out(reward, wnear_price, usn_price)
                min_amount_out == slippage_floor(amount_out)
                actions == swap_actions(swap_path, min_amount_out)
                wrap_amount == wrapping(wrap_amount_for(reward, wrapped_amount))
            IN /\ available_rewards' = available_rewards - oracle_committed(reward)
               /\ last_reward_distribution' = distribution_time
               /\ wrapped_amount' = saturating_sub(wrapped_amount, wrap_amount)
               /\ promises' = Issue(SwapPromise(wrap_amount, actions,
                                                min_amount_out, reward))
               /\ UNCHANGED <<rewards_received, farm_duration, full_rewards_duration,
                              usn_distributed, swap_path, now, pool, history,
                              tokens>>

\* Result<U128, PromiseError> of the wrap-and-transfer call.
Ok(value) == [ok |-> TRUE, value |-> value]
Err == [ok |-> FALSE, value |-> 0]

\* on_swap takes the success path.
swap_succeeded(transfer_amount, reward) ==
    transfer_amount.ok /\ transfer_amount.value = reward

\* A failure path that puts back the amount that was wrapped.
on_swap_restored_wrap_amount(p) == p.wrap_amount

\* A failure path that puts nothing back.
on_swap_restored_nothing(p) == 0

\* What on_swap puts back into available_rewards on the failure path.
on_swap_restored(p) == p.reward

\* A success path that counts the forwarded amount with the wrong sign.
on_swap_usn_amount_negated(p) == 0 - p.min_amount_out

\* The amount on_swap hands to internal_distribute_usn on the success path.
on_swap_usn_amount(p) == p.min_amount_out

\* The wrapped balance cannot cover the transfer of promise p even after
\* its near_deposit.
transfer_short(p) == wnear_balance + p.wrap_amount < p.reward

\* The two calls of promise p on the wrapper (near_deposit of wrap_amount,
\* then ft_transfer_call of reward into the swap venue) and the venue's
\* answer, taken in one step with the callback that receives it.  The
\* wrapper mints 1:1.  A transfer the balance cannot cover fails and takes
\* the deposit of the same batch back with it; a swap that succeeds consumes
\* reward wrapped tokens and pays amount_out reward tokens, at least the
\* floor of the last hop; a swap that fails returns the wrapped tokens.
swap_venue(p, transfer_amount, amount_out) ==
    IF transfer_short(p)
    THEN transfer_amount = Err /\ UNCHANGED tokens
    ELSE IF swap_succeeded(transfer_amount, p.reward)
         THEN /\ amount_out >= p.min_amount_out
              /\ wnear_balance' = wnear_balance + p.wrap_amount - p.reward
              /\ usn_balance' = usn_balance + amount_out
              /\ usn_received' = usn_received + amount_out
         ELSE /\ wnear_balance' = wnear_balance + p.wrap_amount
              /\ UNCHANGED <<usn_balance, usn_received>>

\* Contract::on_swap, as the callback of promise p with the call's result,
\* and Contract::internal_distribute_usn on its success path.
on_swap(p, transfer_amount, amount_out) ==
    /\ p \in Pending("on_swap")
    /\ swap_venue(p, transfer_amount, amount_out)
    /\ IF swap_succeeded(transfer_amount, p.reward)
       THEN /\ usn_distributed' = usn_distributed + on_swap_usn_amount(p)
            /\ promises' = Settle(p) (+) SetToBag({
                    ForwardPromise(on_swap_usn_amount(p), now + farm_duration)})
            /\ swapped' = swapped + p.reward
            /\ UNCHANGED <<wrapped_amount, available_rewards>>
       ELSE /\ wrapped_amount' = wrapped_amount + p.reward
            /\ available_rewards' = available_rewards + on_swap_restored(p)
            /\ promises' = Settle(p)
            /\ UNCHANGED <<usn_distributed, swapped>>
    /\ UNCHANGED <<rewards_received, last_reward_distribution, farm_duration,
                   full_rewards_duration, swap_path, now, pool, credited>>

\* A donation that is made available but not counted as received.
donate_uncounted(attached_deposit) ==
    /\ available_rewards' = available_rewards + attached_deposit
    /\ UNCHANGED <<tokens, rewards_received, last_reward_distribution, farm_duration,
                   full_rewards_duration, usn_distributed, swap_path,
                   wrapped_amount, now, promises, pool, history>>

\* Contract::donate (payable)
donate(attached_deposit) ==
    /\ rewards_received' = rewards_received + attached_deposit
    /\ available_rewards' = available_rewards + attached_deposit
    /\ UNCHANGED <<tokens, last_reward_distribution, farm_duration, full_rewards_duration,
                   usn_distributed, swap_path, wrapped_amount, now, promises, pool,
                   credited, swapped>>

\* The reward token receives a forwarding ft_transfer_call: it moves the
\* amount to the staking pool if the balance covers it and the receiver
\* accepts it, and leaves the balance alone otherwise.  No callback is
\* attached, so the outcome never reaches the contract.
usn_ft_transfer_call(p, accepted) ==
    /\ p \in Pending("ft_transfer_call")
    /\ promises' = Settle(p)
    /\ usn_balance' = IF accepted /\ p.amount <= usn_balance
                      THEN usn_balance - p.amount ELSE usn_balance
    /\ UNCHANGED <<ledger, now, pool, history, wnear_balance, usn_received>>

\* A later block: block_timestamp advances.
Tick(step) ==
    /\ now' = now + step
    /\ UNCHANGED <<tokens, ledger, promises, pool, history>>

(***************************************************************************)
(* Harvest: ping, on_get_account, on_withdraw, and the staking pool.       *)
(***************************************************************************)
StakingPoolAccount(unstaked_balance, staked_balance, can_withdraw) ==
    [unstaked_balance |-> unstaked_balance, staked_balance |-> staked_balance,
     can_withdraw |-> can_withdraw]

\* ext_staking_pool::ping then get_account, then on_get_account.
GetAccountPromise == [method |-> "get_account"]
OnGetAccountPromise(account) == [method |-> "on_get_account", account |-> account]
\* ext_staking_pool::withdraw(amount) then on_withdraw(amount, unstake_all).
WithdrawPromise(amount, unstake_all) ==
    [method |-> "withdraw", amount |-> amount, unstake_all |-> unstake_all]
OnWithdrawPromise(unstaked_amount, unstake_all, success) ==
    [method |-> "on_withdraw", unstaked_amount |-> unstaked_amount,
     unstake_all |-> unstake_all, success |-> success]
\* ext_staking_pool::unstake_all, no callback.
UnstakeAllPromise == [method |-> "unstake_all"]

\* Contract::internal_unstake_all: the promises it creates.
internal_unstake_all == {UnstakeAllPromise}

\* Contract::ping
ping ==
    /\ promises' = Issue(GetAccountPromise)
    /\ UNCHANGED <<tokens, ledger, now, pool, history>>

\* A decision that never asks on_withdraw to unstake again.
on_get_account_calls_no_unstake(account) ==
    IF account.unstaked_balance > 0
    THEN IF account.can_withdraw
         THEN {WithdrawPromise(account.unstaked_balance, FALSE)}
         ELSE {}
    ELSE IF account.staked_balance > 0 THEN internal_unstake_all ELSE {}

\* A decision that unstakes whenever nothing is unstaked, staked or not.
on_get_account_calls_always_unstake(account) ==
    IF account.unstaked_balance > 0
    THEN IF account.can_withdraw
         THEN {WithdrawPromise(account.unstaked_balance, account.staked_balance > 0)}
         ELSE {}
    ELSE internal_unstake_all

\* The promises on_get_account creates for a snapshot.
on_get_account_calls(account) ==
    IF account.unstaked_balance > 0
    THEN IF account.can_withdraw
         THEN {WithdrawPromise(account.unstaked_balance, account.staked_balance > 0)}
         ELSE {}
    ELSE IF account.staked_balance > 0 THEN internal_unstake_all ELSE {}

\* Contract::on_get_account, as the callback of promise p.
on_get_account(p) ==
    /\ p \in Pending("on_get_account")
    /\ promises' = Settle(p) (+) SetToBag(on_get_account_calls(p.account))
    /\ UNCHANGED <<tokens, ledger, now, pool, history>>

\* A callback that does not look at the result of the withdrawal.
on_withdraw_always_passes(p) == TRUE

\* require!(is_promise_success()) of on_withdraw passes.
on_withdraw_passes(p) == p.success

\* A callback that never unstakes again.
on_withdraw_never_unstakes(p) == FALSE

\* if unstake_all of on_withdraw.
on_withdraw_unstakes(p) == p.unstake_all

\* Contract::on_withdraw, as the callback of promise p.
on_withdraw(p) ==
    /\ p \in Pending("on_withdraw")
    /\ IF on_withdraw_passes(p)
       THEN /\ rewards_received' = rewards_received + p.unstaked_amount
            /\ available_rewards' = available_rewards + p.unstaked_amount
            /\ credited' = credited + p.unstaked_amount
            /\ promises' = Settle(p) (+)
                    SetToBag(IF on_withdraw_unstakes(p) THEN internal_unstake_all ELSE {})
       ELSE /\ promises' = Settle(p)
            /\ UNCHANGED <<rewards_received, available_rewards, credited>>
    /\ UNCHANGED <<tokens, last_reward_distribution, farm_duration, full_rewards_duration,
                   usn_distributed, swap_path, wrapped_amount, now, pool, swapped>>

\* The staking pool serves ping and get_account: the snapshot it returns.
pool_get_account(p) ==
    /\ p \in Pending("get_account")
    /\ promises' = Settle(p) (+) SetToBag({OnGetAccountPromise(
            StakingPoolAccount(pool_unstaked, pool_staked, pool_can_withdraw))})
    /\ UNCHANGED <<tokens, ledger, now, pool, history>>

\* The staking pool serves withdraw(amount): it pays only what is unstaked
\* and withdrawable.
pool_withdraw(p) ==
    /\ p \in Pending("withdraw")
    /\ IF pool_can_withdraw /\ p.amount <= pool_unstaked
       THEN /\ pool_unstaked' = pool_unstaked - p.amount
            /\ pool_paid' = pool_paid + p.amount
            /\ promises' = Settle(p) (+) SetToBag({
                    OnWithdrawPromise(p.amount, p.unstake_all, TRUE)})
       ELSE /\ promises' = Settle(p) (+) SetToBag({
                    OnWithdrawPromise(p.amount, p.unstake_all, FALSE)})
            /\ UNCHANGED <<pool_unstaked, pool_paid>>
    /\ UNCHANGED <<tokens, ledger, now, pool_staked, pool_can_withdraw, history>>

\* The staking pool serves unstake_all: the staked balance starts unbonding.
pool_unstake_all(p) ==
    /\ p \in Pending("unstake_all")
    /\ promises' = Settle(p)
    /\ IF pool_staked > 0
       THEN /\ pool_unstaked' = pool_unstaked + pool_staked
            /\ pool_staked' = 0
            /\ pool_can_withdraw' = FALSE
       ELSE UNCHANGED <<pool_staked, pool_unstaked, pool_can_withdraw>>
    /\ UNCHANGED <<tokens, ledger, now, pool_paid, history>>

\* The staking pool credits a reward to this contract's staked balance.
pool_reward ==
    /\ pool_staked' = pool_staked + 1
    /\ UNCHANGED <<tokens, ledger, now, promises, pool_unstaked, pool_can_withdraw,
                   pool_paid, history>>

\* The staking pool's unbonding period elapses.
pool_epoch ==
    /\ ~pool_can_withdraw
    /\ pool_can_withdraw' = TRUE
    /\ UNCHANGED <<tokens, ledger, now, promises, pool_staked, pool_unstaked, pool_paid,
                   history>>

(***************************************************************************)
(* Draining a reward-token balance: distribute_usn, on_usn_balance.        *)
(***************************************************************************)
\* ext_fungible_token::ft_balance_of then on_usn_balance.
FtBalanceOfPromise == [method |-> "ft_balance_of"]
OnUsnBalancePromise(usn_amount) ==
    [method |-> "on_usn_balance", usn_amount |-> usn_amount]

\* Contract::distribute_usn
distribute_usn ==
    /\ promises' = Issue(FtBalanceOfPromise)
    /\ UNCHANGED <<tokens, ledger, now, pool, history>>

\* The reward token serves ft_balance_of: the balance at that moment.
usn_ft_balance_of(p) ==
    /\ p \in Pending("ft_balance_of")
    /\ promises' = Settle(p) (+) SetToBag({OnUsnBalancePromise(usn_balance)})
    /\ UNCHANGED <<tokens, ledger, now, pool, history>>

\* Contract::on_usn_balance, as the callback of promise p with the balance
\* ft_balance_of returned, and Contract::internal_distribute_usn.
on_usn_balance(p, usn_amount) ==
    /\ p \in Pending("on_usn_balance")
    /\ IF usn_amount > 0
       THEN /\ usn_distributed' = usn_distributed + usn_amount
            /\ promises' = Settle(p) (+) SetToBag({
                    ForwardPromise(usn_amount, now + farm_duration)})
       ELSE /\ promises' = Settle(p)
            /\ UNCHANGED usn_distributed
    /\ UNCHANGED <<tokens, rewards_received, available_rewards, last_reward_distribution,
                   farm_duration, full_rewards_duration, swap_path, wrapped_amount,
                   now, pool, history>>

(***************************************************************************)
(* Owner setters.                                                          *)
(***************************************************************************)
\* Contract::assert_owner as a predicate.
assert_owner(predecessor) == predecessor = owner_id

\* Contract::set_full_rewards_duration
set_full_rewards_duration(predecessor, full_rewards_duration_sec) ==
    /\ IF assert_owner(predecessor)
       THEN full_rewards_duration' = full_rewards_duration_sec
       ELSE UNCHANGED full_rewards_duration
    /\ UNCHANGED <<tokens, rewards_received, available_rewards, last_reward_distribution,
                   farm_duration, usn_distributed, swap_path, wrapped_amount, now,
                   promises, pool, history>>

\* Contract::set_farm_duration
set_farm_duration(predecessor, farm_duration_sec) ==
    /\ IF assert_owner(predecessor)
       THEN farm_duration' = farm_duration_sec
       ELSE UNCHANGED farm_duration
    /\ UNCHANGED <<tokens, rewards_received, available_rewards, last_reward_distribution,
                   full_rewards_duration, usn_distributed, swap_path, wrapped_amount,
                   now, promises, pool, history>>

\* A setter that validates the caller only.
set_swap_path_accepts_any_path(predecessor, path) == assert_owner(predecessor)

\* set_swap_path stores the path it is given.
set_swap_path_accepts(predecessor, path) ==
    assert_owner(predecessor) /\ assert_valid_swap_path(path)

\* Contract::set_swap_path
set_swap_path(predecessor, path) ==
    /\ IF set_swap_path_accepts(predecessor, path)
       THEN swap_path' = path
       ELSE UNCHANGED swap_path
    /\ UNCHANGED <<tokens, rewards_received, available_rewards, last_reward_distribution,
                   farm_duration, full_rewards_duration, usn_distributed,
                   wrapped_amount, now, promises, pool, history>>

(***************************************************************************)
(* Inputs.                                                                 *)
(***************************************************************************)
OwnerCallers == {owner_id, Stranger}
Deposits == {1, 2}
FarmDurationSecs == {TimeStep}

OneHop == <<Action(1, wrap_near_contract_id, usn_contract_id, 0)>>
TwoHops == <<Action(1, wrap_near_contract_id, OtherToken, 0),
             Action(2, OtherToken, usn_contract_id, 0)>>
\* Paths offered to set_swap_path: the valid ones, a wrong first input, a
\* wrong last output, a non-zero floor, the empty path.
SwapPaths ==
    {OneHop, TwoHops,
     <<Action(2, OtherToken, usn_contract_id, 0)>>,
     <<Action(1, wrap_near_contract_id, OtherToken, 0)>>,
     <<Action(1, wrap_near_contract_id, usn_contract_id, 1)>>,
     <<Action(1, wrap_near_contract_id, OtherToken, 1),
       Action(2, OtherToken, usn_contract_id, 0)>>,
     <<>>}

BasePrices == <<AssetOptionalPrice(usn_contract_id, {Price(1, 0)}),
                AssetOptionalPrice(wrap_near_contract_id, {Price(2, 0)})>>
\* A later entry for an asset replaces an earlier one; the decimals differ.
OtherPrices == <<AssetOptionalPrice(wrap_near_contract_id, {Price(5, 0)}),
                 AssetOptionalPrice(usn_contract_id, {Price(1, 1)}),
                 AssetOptionalPrice(wrap_near_contract_id, {Price(2, 1)})>>
NoUsnPrice == <<AssetOptionalPrice(usn_contract_id, {}),
                AssetOptionalPrice(wrap_near_contract_id, {Price(2, 0)})>>
NoWnearPrice == <<AssetOptionalPrice(usn_contract_id, {Price(1, 0)})>>

OracleInput(predecessor, data, prices_valid, overflow_checks) ==
    [predecessor |-> predecessor, data |-> data, prices_valid |-> prices_valid,
     overflow_checks |-> overflow_checks]

\* Calls of oracle_on_call at the current time: acceptable ones (one of them
\* at the staleness ceiling) and one for each way to be refused.
Timestamps(offsets) == {t \in {now + o : o \in offsets} : t >= 0}
OracleInputs ==
    {OracleInput(oracle_contract_id,
                 PriceData(MAX_RECENCY_DURATION_SEC, t, BasePrices), TRUE, TRUE) :
        t \in Timestamps({0 - MAX_STALENESS - 1, 0 - MAX_STALENESS, 0, 1})}
    \cup {OracleInput(oracle_contract_id,
                      PriceData(MAX_RECENCY_DURATION_SEC, now, prices), TRUE, TRUE) :
            prices \in {OtherPrices, NoUsnPrice, NoWnearPrice}}
    \cup {OracleInput(oracle_contract_id,
                      PriceData(MAX_RECENCY_DURATION_SEC + 1, now, BasePrices),
                      TRUE, TRUE),
          OracleInput(oracle_contract_id,
                      PriceData(MAX_RECENCY_DURATION_SEC, now, BasePrices),
                      FALSE, TRUE),
          OracleInput(Stranger,
                      PriceData(MAX_RECENCY_DURATION_SEC, now, BasePrices),
                      TRUE, TRUE)}

\* Calls of set_swap_path: the owner with every path, a stranger with a valid one.
SetSwapPathInputs ==
    {<<owner_id, path>> : path \in SwapPaths} \cup {<<Stranger, TwoHops>>}

TransferResults(p) == {Err, Ok(0), Ok(p.reward)}
\* What the venue may pay for promise p: the floor, or more.
SwapOutputs(p) == {p.min_amount_out, p.min_amount_out + 1}
\* The receiver of a forwarding accepts it or not.
Accepts == BOOLEAN

(***************************************************************************)
(* The contract after Contract::new, and its environment.                  *)
(***************************************************************************)
\* Contract::new with the given swap path (which must pass validation).
new(path) ==
    /\ assert_valid_swap_path(path)
    /\ rewards_received = 0
    /\ available_rewards = 0
    /\ last_reward_distribution = 0
    /\ farm_duration = DEFAULT_FARM_DURATION
    /\ full_rewards_duration = FULL_REWARDS_DURATION
    /\ usn_distributed = 0
    /\ swap_path = path
    /\ wrapped_amount = 0

Environment(timestamp) ==
    /\ now = timestamp
    /\ promises = EmptyBag
    /\ pool_staked = 0
    /\ pool_unstaked = 0
    /\ pool_can_withdraw = TRUE
    /\ pool_paid = 0
    /\ credited = 0
    /\ swapped = 0
    /\ wnear_balance = 0
    /\ usn_balance = 0
    /\ usn_received = 0
    /\ last = [name |-> "new"]

Init == (\E path \in {OneHop, TwoHops} : new(path)) /\ Environment(0)

(***************************************************************************)
(* Steps, each an operation above with its inputs drawn from the sets and  *)
(* the caps of the model as guards.                                        *)
(***************************************************************************)
Clock(step, limit) == now + step <= limit /\ Tick(step)
Ping(methods, cap) == InFlightOf(methods) < cap /\ ping
PoolGetAccount == \E p \in Pending("get_account") : pool_get_account(p)
OnGetAccount == \E p \in Pending("on_get_account") : on_get_account(p)
PoolWithdraw == \E p \in Pending("withdraw") : pool_withdraw(p)
OnWithdraw == \E p \in Pending("on_withdraw") : on_withdraw(p)
PoolUnstakeAll == \E p \in Pending("unstake_all") : pool_unstake_all(p)
\* The native currency that has entered the system: what the contract has
\* received and what the staking pool holds for it or has paid but not yet
\* seen credited.
Funds == rewards_received + pool_staked + pool_unstaked + (pool_paid - credited)
PoolReward(cap) == Funds < cap /\ pool_reward
Donate(cap) == \E d \in Deposits : Funds + d <= cap /\ donate(d)
OracleOnCall(methods, cap) ==
    /\ InFlightOf(methods) < cap
    /\ \E i \in OracleInputs :
            oracle_on_call(i.predecessor, i.data, i.prices_valid, i.overflow_checks)
OnSwap ==
    \E p \in Pending("on_swap") : \E r \in TransferResults(p) :
        \E out \in SwapOutputs(p) : on_swap(p, r, out)
UsnFtTransferCall ==
    \E p \in Pending("ft_transfer_call") : \E accepted \in Accepts :
        usn_ft_transfer_call(p, accepted)
UsnFtBalanceOf == \E p \in Pending("ft_balance_of") : usn_ft_balance_of(p)
DistributeUsn(methods, cap) == InFlightOf(methods) < cap /\ distribute_usn
OnUsnBalance ==
    \E p \in Pending("on_usn_balance") :
        usn_distributed + p.usn_amount <= MaxUsn /\ on_usn_balance(p, p.usn_amount)
SetFullRewardsDuration(secs) ==
    \E c \in OwnerCallers, sec \in secs : set_full_rewards_duration(c, sec)
SetFarmDuration ==
    \E c \in OwnerCallers, sec \in FarmDurationSecs : set_farm_duration(c, sec)
SetSwapPath == \E i \in SetSwapPathInputs : set_swap_path(i[1], i[2])

(***************************************************************************)
(* Spec: the whole system, every operation of the contract and every step  *)
(* of its environment interleaved.  The record of the last operation is    *)
(* not kept here.                                                          *)
(***************************************************************************)
Quiet(A) == A /\ UNCHANGED last

Next ==
    \/ Quiet(Clock(TimeStep, MaxTime))
    \/ Quiet(Ping(AllMethods, MaxInFlight))
    \/ Quiet(PoolGetAccount)
    \/ Quiet(OnGetAccount)
    \/ Quiet(PoolWithdraw)
    \/ Quiet(OnWithdraw)
    \/ Quiet(PoolUnstakeAll)
    \/ Quiet(PoolReward(MaxBalance))
    \/ Quiet(pool_epoch)
    \/ Quiet(Donate(MaxBalance))
    \/ Quiet(OracleOnCall(AllMethods, MaxInFlight))
    \/ Quiet(OnSwap)
    \/ Quiet(UsnFtTransferCall)
    \/ Quiet(DistributeUsn(AllMethods, MaxInFlight))
    \/ Quiet(UsnFtBalanceOf)
    \/ Quiet(OnUsnBalance)
    \/ Quiet(SetFullRewardsDuration({2 * TimeStep}))
    \/ Quiet(SetFarmDuration)
    \/ Quiet(SetSwapPath)

Spec == Init /\ [][Next]_vars

(***************************************************************************)
(* The record of the last operation of the contract: its name, its         *)
(* outcome and the values it read.  Steps of the environment (the clock,   *)
(* the staking pool, the reward token) leave the record alone, so that     *)
(* "no other operation in between" can be read off it.                     *)
(***************************************************************************)
Did(A, name) == A /\ last' = [name |-> name]

\* on_swap of promise p follows the accepted oracle_on_call that created p
\* with no other operation of the contract in between.
follows_commit(p) ==
    /\ last.name = "oracle_on_call"
    /\ last.panic = ""
    /\ last.reward = p.reward
    /\ last.min_amount_out = p.min_amount_out

oracle_on_call_record(i) ==
    LET panic == oracle_on_call_panic(i.predecessor, i.data, i.prices_valid,
                                      i.overflow_checks)
        reward == get_near_reward_for_distribution
    IN IF panic # ""
       THEN [name |-> "oracle_on_call", panic |-> panic]
       ELSE LET wnear_price == the(prices_get(i.data.prices, wrap_near_contract_id))
                usn_price == the(prices_get(i.data.prices, usn_contract_id))
                amount_out == oracle_amount_out(reward, wnear_price, usn_price)
            IN [name |-> "oracle_on_call", panic |-> "", reward |-> reward,
                wnear_price |-> wnear_price, usn_price |-> usn_price,
                amount_out |-> amount_out,
                min_amount_out |-> slippage_floor(amount_out),
                available_before |-> available_rewards,
                wrapped_before |-> wrapped_amount,
                time_diff |-> now - last_reward_distribution,
                duration |-> full_rewards_duration]

on_swap_record(p, r, out) ==
    [name |-> "on_swap", success |-> swap_succeeded(r, p.reward),
     reward |-> p.reward, min_amount_out |-> p.min_amount_out,
     amount_out |-> out, direct |-> follows_commit(p),
     available_before |-> IF follows_commit(p) THEN last.available_before ELSE 0,
     wrapped_before |-> IF follows_commit(p) THEN last.wrapped_before ELSE 0]

TracedOracleOnCall(methods, cap, inputs) ==
    /\ InFlightOf(methods) < cap
    /\ \E i \in inputs :
        /\ oracle_on_call(i.predecessor, i.data, i.prices_valid, i.overflow_checks)
        /\ last' = oracle_on_call_record(i)

TracedOnGetAccount ==
    \E p \in Pending("on_get_account") :
        on_get_account(p) /\ last' = [name |-> "on_get_account", account |-> p.account]

TracedOnWithdraw ==
    \E p \in Pending("on_withdraw") :
        on_withdraw(p) /\ last' = [name |-> "on_withdraw", success |-> p.success,
                                    unstake_all |-> p.unstake_all]

TracedOnSwap ==
    \E p \in Pending("on_swap") : \E r \in TransferResults(p) :
        \E out \in SwapOutputs(p) :
            on_swap(p, r, out) /\ last' = on_swap_record(p, r, out)

\* The view get_near_reward_for_distribution, called from outside.
ViewNearReward ==
    /\ last' = [name |-> "get_near_reward_for_distribution",
                result |-> get_near_reward_for_distribution,
                available_before |-> available_rewards,
                time_diff |-> now - last_reward_distribution,
                duration |-> full_rewards_duration]
    /\ UNCHANGED <<tokens, ledger, now, promises, pool, history>>

(***************************************************************************)
(* SpecDistribution: donations, the distribution flow with several         *)
(* distributions in flight, and the release ramp.                          *)
(***************************************************************************)
NextDistribution ==
    \/ Quiet(Clock(ShortStep, LongTime))
    \/ Did(Donate(MaxFunds), "donate")
    \/ TracedOracleOnCall(SwapMethods, MaxSwaps, OracleInputs)
    \/ TracedOnSwap
    \/ Quiet(UsnFtTransferCall)
    \/ Did(SetFullRewardsDuration({2 * ShortStep}), "set_full_rewards_duration")

SpecDistribution == Init /\ [][NextDistribution]_vars

(***************************************************************************)
(* SpecResolve: SpecDistribution under the dispatcher's guarantee that the *)
(* callback of every call that was issued is eventually run: on_swap is    *)
(* not left enabled forever without running.                               *)
(***************************************************************************)
SpecResolve == SpecDistribution /\ WF_vars(TracedOnSwap)

(***************************************************************************)
(* SpecHarvest: the harvest flow against the staking pool, with several    *)
(* cycles in flight.                                                       *)
(***************************************************************************)
NextHarvest ==
    \/ Did(Ping(HarvestMethods, MaxHarvests), "ping")
    \/ Quiet(PoolGetAccount)
    \/ TracedOnGetAccount
    \/ Quiet(PoolWithdraw)
    \/ TracedOnWithdraw
    \/ Quiet(PoolUnstakeAll)
    \/ Quiet(PoolReward(MaxYield))
    \/ Quiet(pool_epoch)

SpecHarvest == Init /\ [][NextHarvest]_vars

(***************************************************************************)
(* SpecLedger: everything that moves native currency through the ledger,   *)
(* with several distributions and a harvest cycle in flight at once.       *)
(***************************************************************************)
NextLedger ==
    \/ Quiet(Clock(ShortStep, LedgerTime))
    \/ Quiet(Donate(MaxFunds))
    \/ Quiet(OracleOnCall(SwapMethods, MaxSwaps))
    \/ Quiet(OnSwap)
    \/ Quiet(UsnFtTransferCall)
    \/ Quiet(SetFullRewardsDuration({2 * ShortStep}))
    \/ Quiet(Ping(HarvestMethods, MaxCycles))
    \/ Quiet(PoolGetAccount)
    \/ Quiet(OnGetAccount)
    \/ Quiet(PoolWithdraw)
    \/ Quiet(OnWithdraw)
    \/ Quiet(PoolUnstakeAll)
    \/ Quiet(PoolReward(MaxFunds))
    \/ Quiet(pool_epoch)

SpecLedger == Init /\ [][NextLedger]_vars

(***************************************************************************)
(* SpecScenario: the release ramp and the price conversion on the amounts  *)
(* of the documented scenarios.  The contract starts from states it        *)
(* reaches by a donation, a change of full_rewards_duration by the owner   *)
(* and the passing of time, before any distribution.                       *)
(***************************************************************************)
\* <<donated, block_timestamp, full_rewards_duration>>
ScenarioStates ==
    ({0, 1, 2, 3, 5, 900} \X {0, 1, 2, 3, 86400, 259200}
        \X {0, 2, 3, FULL_REWARDS_DURATION})
    \cup {<<1000000, 259200, FULL_REWARDS_DURATION>>}

ScenarioPrices == <<AssetOptionalPrice(usn_contract_id, {Price(1, 6)}),
                    AssetOptionalPrice(wrap_near_contract_id, {Price(500, 8)})>>

\* The wrapped-native price has fewer decimals than the reward token's.
FewerDecimalsPrices == <<AssetOptionalPrice(usn_contract_id, {Price(7, 2)}),
                         AssetOptionalPrice(wrap_near_contract_id, {Price(3, 0)})>>
\* The scaled wrapped-native multiplier leaves the u128 range.
OverflowPrices == <<AssetOptionalPrice(usn_contract_id, {Price(1, 1)}),
                    AssetOptionalPrice(wrap_near_contract_id,
                                       {Price(U128_MAX, 0)})>>

ScenarioOracleInputs ==
    {OracleInput(oracle_contract_id,
                 PriceData(MAX_RECENCY_DURATION_SEC, now, prices), TRUE, TRUE) :
        prices \in {ScenarioPrices, BasePrices, OtherPrices, FewerDecimalsPrices,
                    OverflowPrices}}

InitScenario ==
    \E sc \in ScenarioStates :
        /\ rewards_received = sc[1]
        /\ available_rewards = sc[1]
        /\ last_reward_distribution = 0
        /\ farm_duration = DEFAULT_FARM_DURATION
        /\ full_rewards_duration = sc[3]
        /\ usn_distributed = 0
        /\ swap_path = TwoHops
        /\ wrapped_amount = 0
        /\ Environment(sc[2])

NextScenario ==
    \/ ViewNearReward
    \/ (wrapped_amount <= MaxWrapped /\ wnear_balance <= MaxWrapped
            /\ TracedOracleOnCall(SwapMethods, MaxSwaps, ScenarioOracleInputs))
    \/ TracedOnSwap
    \/ Quiet(UsnFtTransferCall)

SpecScenario == InitScenario /\ [][NextScenario]_vars

(***************************************************************************)
(* SpecTokens: the distribution flow and the draining flow against the     *)
(* wrapper, the swap venue and the reward token, whose balances are kept.  *)
(* The whole of available_rewards is releasable at once                    *)
(* (full_rewards_duration = 0 after the owner's call), and the staking     *)
(* pool accepts every forwarding: forwarding is the reliable step here.    *)
(***************************************************************************)
TokenMethods == SwapMethods \cup {"ft_balance_of", "on_usn_balance"}

\* oracle_on_call with fresh prices, and once as a stranger.
TokenOracleInputs ==
    {OracleInput(c, PriceData(MAX_RECENCY_DURATION_SEC, now, BasePrices),
                 TRUE, TRUE) : c \in {oracle_contract_id, Stranger}}

NextTokens ==
    \/ Did(Donate(MaxDonated), "donate")
    \/ Did(SetFullRewardsDuration({0}), "set_full_rewards_duration")
    \/ (wnear_balance <= MaxWnear
            /\ TracedOracleOnCall(TokenMethods, MaxChains, TokenOracleInputs))
    \/ TracedOnSwap
    \/ Quiet(\E p \in Pending("ft_transfer_call") : usn_ft_transfer_call(p, TRUE))
    \/ Did(DistributeUsn(TokenMethods, MaxChains), "distribute_usn")
    \/ Quiet(UsnFtBalanceOf)
    \/ Did(OnUsnBalance, "on_usn_balance")

SpecTokens == Init /\ [][NextTokens]_vars

(***************************************************************************)
(* SpecRatio: u128_ratio applied to arguments from the whole u128 range,   *)
(* products beyond the range included.                                     *)
(***************************************************************************)
RatioValues == {0, 1, 7, 4096, U128_MAX}
RatioNums == {0, 1, 3, 99, 100}
RatioDenoms == {0, 1, 2, 3, 100}

CallRatio ==
    /\ \E a \in RatioValues, num \in RatioNums, denom \in RatioDenoms :
        last' = [name |-> "u128_ratio", a |-> a, num |-> num, denom |-> denom,
                 result |-> u128_ratio(a, num, denom)]
    /\ UNCHANGED <<tokens, ledger, now, promises, pool, history>>

NextRatio == CallRatio

SpecRatio == Init /\ [][NextRatio]_vars

(***************************************************************************)
(* Properties.                                                             *)
(***************************************************************************)
\* The reward committed by oracle_on_call whose on_swap has not run yet.
RECURSIVE RewardsOf(_)
RewardsOf(S) ==
    IF S = {} THEN 0
    ELSE LET p == CHOOSE q \in S : TRUE
         IN p.reward * CopiesIn(p, promises) + RewardsOf(S \ {p})
RewardsInFlight == RewardsOf(Pending("on_swap"))

\* The amount of the successful withdrawals whose on_withdraw has not run yet.
RECURSIVE AmountsOf(_)
AmountsOf(S) ==
    IF S = {} THEN 0
    ELSE LET p == CHOOSE q \in S : TRUE
         IN p.unstaked_amount * CopiesIn(p, promises) + AmountsOf(S \ {p})
PaidNotCredited == AmountsOf({p \in Pending("on_withdraw") : p.success})

C2_NoDoubleSpend ==
    available_rewards + RewardsInFlight + swapped = rewards_received

\* C2 witness: two distributions are in flight at once, each holding its own
\* part of what a harvest credit and a donation brought in, and some of it
\* is still available.
C2_Witness ==
    /\ InFlightOf({"on_swap"}) = 2
    /\ credited > 0
    /\ rewards_received > credited
    /\ available_rewards > 0

\* C3 as stated: when on_swap fails right after the oracle_on_call that
\* committed D from available_rewards = R and wrapped_amount = W, then
\* available_rewards = R and wrapped_amount = W + D.
C3_AsStated ==
    (last.name = "on_swap" /\ ~last.success /\ last.direct) =>
        /\ available_rewards = last.available_before
        /\ wrapped_amount = last.wrapped_before + last.reward

\* C3 amended: in that case available_rewards = R and wrapped_amount is D
\* above what oracle_on_call left of the marker, that is
\* max(0, W - (max(0, D - W) + 1)) + D; this is W + D when W = 0 and less
\* than W + D when W > 0.
C3_ConservationUnderSwapFailure ==
    (last.name = "on_swap" /\ ~last.success /\ last.direct) =>
        LET R == last.available_before
            W == last.wrapped_before
            D == last.reward
        IN /\ D <= R
           /\ available_rewards = R
           /\ wrapped_amount = Max(0, W - (Max(0, D - W) + 1)) + D
           /\ (W = 0 => wrapped_amount = W + D)
           /\ (W > 0 => wrapped_amount < W + D)

\* C3 witness: a swap failed right after its commit while the marker was
\* already positive.
C3_Witness ==
    /\ last.name = "on_swap"
    /\ ~last.success
    /\ last.direct
    /\ last.wrapped_before > 0

\* C4: harvest cycles may overlap and repeat, yet what on_withdraw has added
\* to rewards_received is exactly what the staking pool paid out in the
\* successful withdrawals whose callback has run: never more than the pool
\* paid, and all of it once no callback is pending.
C4_NoDoubleCredit ==
    /\ credited + PaidNotCredited = pool_paid
    /\ rewards_received = credited
    /\ (Pending("on_withdraw") = {} => rewards_received = pool_paid)

\* C4 witness: of two cycles that saw the same snapshot one was credited and
\* the other's withdrawal failed.
C4_Witness ==
    /\ last.name = "on_withdraw"
    /\ ~last.success
    /\ credited > 0
    /\ credited = pool_paid

\* The ways C5 lists for oracle_on_call to be refused.
C5_Refused(i) ==
    \/ i.predecessor # oracle_contract_id
    \/ i.data.recency_duration_sec > 90
    \/ i.data.timestamp > now
    \/ now - i.data.timestamp > 15
    \/ get_near_reward_for_distribution = 0
    \/ \A k \in 1..Len(i.data.prices) :
            i.data.prices[k].asset_id = usn_contract_id => i.data.prices[k].price = {}
    \/ \A k \in 1..Len(i.data.prices) :
            i.data.prices[k].asset_id = wrap_near_contract_id
                => i.data.prices[k].price = {}

\* C5: an oracle_on_call that is refused (for one of the listed reasons, or
\* by any other panic) changes no ledger field and issues no call.
C5_RejectionChangesNothing ==
    [][\A i \in OracleInputs :
        (/\ oracle_on_call(i.predecessor, i.data, i.prices_valid, i.overflow_checks)
         /\ last' = oracle_on_call_record(i)
         /\ (C5_Refused(i) \/ last'.panic # ""))
        => UNCHANGED <<ledger, promises>>]_vars

\* C5 witness: a bundle older than the staleness ceiling was refused while a
\* reward was releasable.
C5_Witness ==
    /\ last.name = "oracle_on_call"
    /\ last.panic = "Price data timestamp is too stale"
    /\ get_near_reward_for_distribution > 0

\* C6: the releasable reward, as the view returns it and as oracle_on_call
\* commits it, is all of available_rewards once the time since the last
\* distribution has reached full_rewards_duration and
\* floor(available_rewards * elapsed / full_rewards_duration) before; it is
\* never more than available_rewards; 900 available, one day elapsed of
\* three gives 300.
C6_ReleasableReward ==
    (\/ last.name = "get_near_reward_for_distribution"
     \/ (last.name = "oracle_on_call" /\ last.panic = "")) =>
        LET A == last.available_before
            t == last.time_diff
            F == last.duration
            r == IF last.name = "oracle_on_call" THEN last.reward ELSE last.result
        IN /\ r >= 0
           /\ r <= A
           /\ (t >= F => r = A)
           /\ (t < F => r * F <= A * t /\ A * t < (r + 1) * F)
           /\ ((F = 259200 /\ A = 900 /\ t = 86400) => r = 300)
           /\ (last.name = "oracle_on_call" =>
                    /\ available_rewards = A - r
                    /\ \E p \in Pending("on_swap") : p.reward = r)

\* C6 witness: oracle_on_call committed 300 of 900 one day into a three-day
\* ramp.
C6_Witness ==
    /\ last.name = "oracle_on_call"
    /\ last.panic = ""
    /\ last.duration = 259200
    /\ last.available_before = 900
    /\ last.time_diff = 86400
    /\ last.reward = 300
    /\ available_rewards = 600

\* oracle_on_call ran the price-conversion scenario of C7.
C7_Scenario ==
    /\ last.name = "oracle_on_call"
    /\ last.panic = ""
    /\ last.reward = 1000000
    /\ last.usn_price = Price(1, 6)
    /\ last.wnear_price = Price(500, 8)

\* C7 as stated: in the scenario the expected output is 5000 and the
\* slippage floor 4950.
C7_AsStated ==
    C7_Scenario => last.amount_out = 5000 /\ last.min_amount_out = 4950

\* C7 amended: in the scenario (native_scale = 1, token_scale = 100) the
\* expected output is 1_000_000 * 500 / 100 = 5_000_000 and the slippage
\* floor is floor(5_000_000 * 99 / 100) = 4_950_000, which is what the
\* callback and the last hop of the submitted path carry.
C7_PriceConversionScenario ==
    C7_Scenario =>
        /\ last.amount_out = 5000000
        /\ last.min_amount_out = 4950000
        /\ \E p \in Pending("on_swap") :
                /\ p.reward = 1000000
                /\ p.min_amount_out = 4950000
                /\ p.actions[Len(p.actions)].min_amount_out = 4950000

\* C7 witness: the scenario ran.
C7_Witness == C7_Scenario /\ available_rewards = 0

\* A path has the shape C8 asks of the persisted swap_path.
C8_Shape(path) ==
    /\ path # <<>>
    /\ path[1].token_in = "wnear"
    /\ path[Len(path)].token_out = "usn"
    /\ \A k \in 1..Len(path) : path[k].min_amount_out = 0

\* C8: the persisted swap_path always starts at the wrapped-native token,
\* ends at the reward token and has every floor zero; the copy oracle_on_call
\* submits carries its floor on the last hop only; and swap_path changes in
\* no step but a set_swap_path by the owner with a path of that shape, which
\* it then stores: a set_swap_path that is refused and every other operation,
\* oracle_on_call included, keep the previous path.
C8_SwapPathShape ==
    /\ [](/\ C8_Shape(swap_path)
          /\ \A p \in Pending("on_swap") :
                /\ p.actions # <<>>
                /\ p.actions[Len(p.actions)].min_amount_out = p.min_amount_out
                /\ \A k \in 1..(Len(p.actions) - 1) : p.actions[k].min_amount_out = 0)
    /\ [][swap_path' # swap_path =>
            \E i \in SetSwapPathInputs :
                /\ i[1] = "owner"
                /\ C8_Shape(i[2])
                /\ swap_path' = i[2]
                /\ set_swap_path(i[1], i[2])]_vars

\* C8 witness: a distribution submitted a two-hop copy with a positive floor
\* on its last hop, and set_swap_path then replaced the path by another
\* valid one.
C8_Witness ==
    /\ swap_path = OneHop
    /\ \E p \in Pending("on_swap") : Len(p.actions) = 2 /\ p.min_amount_out > 0

\* The calls the decision table of C9 allows for a snapshot.
C9_Table(account) ==
    CASE account.unstaked_balance > 0 /\ account.can_withdraw ->
            SetToBag({[method |-> "withdraw", amount |-> account.unstaked_balance,
                       unstake_all |-> (account.staked_balance > 0)]})
      [] account.unstaked_balance > 0 /\ ~account.can_withdraw -> EmptyBag
      [] account.unstaked_balance = 0 /\ account.staked_balance > 0 ->
            SetToBag({[method |-> "unstake_all"]})
      [] OTHER -> EmptyBag

\* C9: on_get_account issues exactly the calls of the decision table: one
\* withdraw of the whole unstaked balance chained to on_withdraw(unstaked,
\* staked > 0) when it can withdraw, nothing while the balance is cooling
\* down, one unstake_all when nothing is unstaked and something is staked,
\* nothing when both are zero.
C9_DecisionTable ==
    [][\A p \in Pending("on_get_account") :
        on_get_account(p) =>
            promises' = (promises (-) SetToBag({p})) (+) C9_Table(p.account)]_vars

\* C9 witness: on_get_account saw both balances positive and withdrawable,
\* and the withdraw it issued asks on_withdraw to unstake again.
C9_Witness ==
    /\ last.name = "on_get_account"
    /\ last.account.unstaked_balance > 0
    /\ last.account.staked_balance > 0
    /\ last.account.can_withdraw
    /\ \E p \in Pending("withdraw") :
            p.unstake_all /\ p.amount = last.account.unstaked_balance

\* C10: ping and on_get_account change no ledger field for any snapshot, and
\* on a snapshot with nothing unstaked and nothing staked on_get_account
\* issues no call either.
C10_HarvestIdempotence ==
    [][/\ ping => UNCHANGED ledger
       /\ \A p \in Pending("on_get_account") :
            on_get_account(p) =>
                /\ UNCHANGED ledger
                /\ (p.account.unstaked_balance = 0 /\ p.account.staked_balance = 0)
                        => promises' = promises (-) SetToBag({p})]_vars

\* C10 witness: a harvest cycle on an empty snapshot has run to its end.
C10_Witness ==
    /\ last.name = "on_get_account"
    /\ last.account.unstaked_balance = 0
    /\ last.account.staked_balance = 0
    /\ promises = EmptyBag

\* C11: on_withdraw(amount, unstake_all) after a failed withdrawal changes
\* no ledger field and issues no call; after a successful one it adds
\* exactly amount to rewards_received and to available_rewards, leaves every
\* other ledger field alone, and issues one unstake_all if and only if
\* unstake_all is true.
C11_OnWithdraw ==
    [][\A p \in Pending("on_withdraw") :
        on_withdraw(p) =>
            IF p.success
            THEN /\ rewards_received' = rewards_received + p.unstaked_amount
                 /\ available_rewards' = available_rewards + p.unstaked_amount
                 /\ UNCHANGED <<last_reward_distribution, farm_duration,
                                full_rewards_duration, usn_distributed, swap_path,
                                wrapped_amount>>
                 /\ promises' = (promises (-) SetToBag({p})) (+)
                        (IF p.unstake_all THEN SetToBag({[method |-> "unstake_all"]})
                                          ELSE EmptyBag)
            ELSE /\ UNCHANGED ledger
                 /\ promises' = promises (-) SetToBag({p})]_vars

\* C11 witness: a successful withdrawal was credited by on_withdraw with
\* unstake_all true, and the unstake_all it issued is in flight.
C11_Witness ==
    /\ last.name = "on_withdraw"
    /\ last.success
    /\ last.unstake_all
    /\ credited > 0
    /\ Pending("unstake_all") # {}

C13_AsStated ==
    [][rewards_received' # rewards_received =>
        \E p \in Pending("on_withdraw") :
            /\ p.success
            /\ on_withdraw(p)
            /\ rewards_received' = rewards_received + p.unstaked_amount]_vars

\* C13 amended: rewards_received changes in no step but a successful
\* on_withdraw, which adds the withdrawn amount, and a donate, which adds the
\* attached deposit; every other operation and callback leaves it unchanged.
C13_RewardsReceivedWriters ==
    [][/\ rewards_received' # rewards_received =>
            \/ \E p \in Pending("on_withdraw") :
                    /\ p.success
                    /\ on_withdraw(p)
                    /\ rewards_received' = rewards_received + p.unstaked_amount
            \/ \E d \in Deposits :
                    /\ donate(d)
                    /\ rewards_received' = rewards_received + d
       /\ \A d \in Deposits : donate(d) => rewards_received' = rewards_received + d]_vars

\* C13 witness: rewards_received holds one harvested unit and one donated
\* unit.
C13_Witness ==
    /\ credited = 1
    /\ rewards_received = 2

\* C14 as stated: for denom > 0 u128_ratio does not trap and returns
\* floor(a * num / denom).
C14_AsStated ==
    (last.name = "u128_ratio" /\ last.denom > 0) =>
        /\ last.result # Trap
        /\ last.result * last.denom <= last.a * last.num
        /\ last.a * last.num < (last.result + 1) * last.denom

\* C14 amended: for denom > 0 and a quotient within the u128 range
\* u128_ratio returns exactly floor(a * num / denom), also when a * num is
\* beyond the range; it traps when denom = 0 and when the quotient is beyond
\* the u128 range, and in no other case.
C14_RatioExact ==
    last.name = "u128_ratio" =>
        LET a == last.a
            num == last.num
            denom == last.denom
            r == last.result
        IN /\ (denom = 0 => r = Trap)
           /\ (denom > 0 /\ a * num >= (U128_MAX + 1) * denom => r = Trap)
           /\ (denom > 0 /\ a * num < (U128_MAX + 1) * denom =>
                    /\ r # Trap
                    /\ r >= 0
                    /\ r * denom <= a * num
                    /\ a * num < (r + 1) * denom)

\* C14 witness: a product a hundred times beyond the u128 range, divided
\* back into the range.
C14_Witness ==
    /\ last.name = "u128_ratio"
    /\ last.a = U128_MAX
    /\ last.num = 100
    /\ last.denom = 100
    /\ last.result = U128_MAX

\* C15: when the swap call returned Ok with the submitted reward, on_swap
\* forwards to the issuer, and adds to usn_distributed, the amount of
\* reward tokens the swap produced, and leaves available_rewards and
\* wrapped_amount unchanged.
C15_ForwardsConvertedAmount ==
    [][\A p \in Pending("on_swap") : \A out \in SwapOutputs(p) :
        on_swap(p, Ok(p.reward), out) =>
            /\ usn_distributed' = usn_distributed + out
            /\ \E f \in BagToSet(promises') :
                    /\ f.method = "ft_transfer_call"
                    /\ f.amount = out
                    /\ CopiesIn(f, promises') = CopiesIn(f, promises) + 1
            /\ UNCHANGED <<available_rewards, wrapped_amount>>]_vars

\* C16: when every callback is eventually run, no committed reward stays in
\* flight forever, and the on_swap that resolves a distribution removes
\* exactly that one pending callback and does exactly one of two things: it
\* issues one forwarding and counts it in usn_distributed, leaving
\* available_rewards alone, or it puts the reward back into
\* available_rewards, issuing nothing and leaving usn_distributed alone.
C16_EveryDistributionResolved ==
    /\ (RewardsInFlight > 0) ~> (RewardsInFlight = 0)
    /\ [][\A p \in Pending("on_swap") : \A r \in TransferResults(p) :
            \A out \in SwapOutputs(p) :
                on_swap(p, r, out) =>
                    LET resolved == promises' (-) (promises (-) SetToBag({p}))
                    IN /\ CopiesIn(p, promises') = CopiesIn(p, promises) - 1
                       /\ \/ /\ BagCardinality(resolved) = 1
                             /\ \A f \in BagToSet(resolved) :
                                    f.method = "ft_transfer_call"
                             /\ usn_distributed' = usn_distributed + p.min_amount_out
                             /\ available_rewards' = available_rewards
                          \/ /\ promises' = promises (-) SetToBag({p})
                             /\ usn_distributed' = usn_distributed
                             /\ available_rewards' = available_rewards + p.reward]_vars

\* C16 witness: one distribution was forwarded, a later one was restored by
\* on_swap, and none is in flight.
C16_Witness ==
    /\ last.name = "on_swap"
    /\ ~last.success
    /\ swapped > 0
    /\ usn_distributed > 0
    /\ Pending("on_swap") = {}

\* C17: last_reward_distribution is the time of the most recent
\* oracle_on_call that committed a reward, 0 if there was none: it starts
\* at 0 (Init), a step changes it only if that step commits a reward, every
\* step that commits a reward sets it to the current time, so no on_swap,
\* failed or not, and no other operation moves it; it never decreases and is
\* never later than the current time.
C17_LastRewardDistribution ==
    /\ [](last_reward_distribution <= now)
    /\ [][/\ last_reward_distribution' >= last_reward_distribution
          /\ last_reward_distribution' # last_reward_distribution =>
                /\ InFlightOf({"on_swap"})' = InFlightOf({"on_swap"}) + 1
                /\ available_rewards' < available_rewards
          /\ InFlightOf({"on_swap"})' > InFlightOf({"on_swap"}) =>
                /\ last_reward_distribution' = now
                /\ now' = now]_vars

\* C17 witness: a reward was committed, its swap failed and was reconciled,
\* time went on, and last_reward_distribution still is the time of that
\* commit.
C17_Witness ==
    /\ wrapped_amount > 0
    /\ Pending("on_swap") = {}
    /\ available_rewards = rewards_received
    /\ last_reward_distribution > 0
    /\ last_reward_distribution < now

\* The slippage floor of C18 for reward r and the prices n (wrapped native)
\* and t (reward token).
C18_Floor(r, n, t) ==
    LET s_n == IF n.decimals < t.decimals THEN pow10(t.decimals - n.decimals) ELSE 1
        s_t == IF t.decimals < n.decimals THEN pow10(n.decimals - t.decimals) ELSE 1
    IN (((r * n.multiplier * s_n) \div (t.multiplier * s_t)) * 99) \div 100

\* C18: every accepted oracle_on_call with committed reward r and prices
\* (m_n, d_n), (m_t, d_t) adds exactly one on_swap callback, which carries r
\* and the floor floor(floor(r * m_n * s_n / (m_t * s_t)) * 99 / 100); the
\* action list submitted with it is the swap path with that floor on its last
\* hop and min_amount_out = 0 on every other hop.
C18_SlippageFloor ==
    [][(last'.name = "oracle_on_call" /\ last'.panic = "") =>
        LET M == C18_Floor(last'.reward, last'.wnear_price, last'.usn_price)
        IN \E p \in BagToSet(promises') :
            /\ promises' = promises (+) SetToBag({p})
            /\ p.method = "on_swap"
            /\ p.reward = last'.reward
            /\ p.min_amount_out = M
            /\ Len(p.actions) = Len(swap_path)
            /\ \A k \in 1..Len(p.actions) :
                /\ p.actions[k].pool_id = swap_path[k].pool_id
                /\ p.actions[k].token_in = swap_path[k].token_in
                /\ p.actions[k].token_out = swap_path[k].token_out
                /\ p.actions[k].min_amount_out =
                        IF k = Len(p.actions) THEN M ELSE 0]_vars

\* C18 witness: a reward of 5 was committed at the prices (3, 0) and (7, 2):
\* the wrapped-native side is scaled by 100, the expected output is
\* floor(1500 / 7) = 214 and the floor floor(214 * 99 / 100) = 211, on the
\* last of two hops.
C18_Witness ==
    /\ last.name = "oracle_on_call"
    /\ last.panic = ""
    /\ last.reward = 5
    /\ last.wnear_price = Price(3, 0)
    /\ last.usn_price = Price(7, 2)
    /\ \E p \in Pending("on_swap") :
        /\ p.min_amount_out = 211
        /\ Len(p.actions) = 2
        /\ p.actions[1].min_amount_out = 0
        /\ p.actions[2].min_amount_out = 211

\* C19: the wrapped_amount marker never overstates the wrapped balance:
\* whenever no distribution is in flight wrapped_amount is at most the
\* contract's balance of wrapped tokens, and for every distribution in
\* flight the balance after the deposit of wrap_amount covers the transfer
\* of reward into the swap venue.
C19_MarkerWithinBalance ==
    /\ Pending("on_swap") = {} => wrapped_amount <= wnear_balance
    /\ \A p \in Pending("on_swap") : ~transfer_short(p)

\* C20: usn_distributed never exceeds the reward tokens the contract has
\* received from the swap venue, whatever the interleaving of the draining
\* flow with the distribution flow.
C20_NoDoubleCount == usn_distributed <= usn_received

====
